---- MODULE Spec2Model ----
(***************************************************************************)
(* Booking lifecycle and sitter rating aggregation of the v1 API           *)
(* (src/app/api/v1/endpoints).  The document store is modelled as one      *)
(* function per collection, keyed by the document id.  Each handler is     *)
(* given twice: as one atomic action (a request that runs alone), and, for *)
(* update_booking and the review handlers, as one action per await (the    *)
(* requests in flight, which can interleave).  Authentication is the       *)
(* identity of the caller: `caller` is current_user["id"].                 *)
(*                                                                         *)
(* Optional values are sequences: <<>> is Python's None, <<v>> is v.       *)
(* Dates are day numbers, times of day are half-hour slots (18 = 09:00,    *)
(* 23 = 11:30), money is in cents, hourly rates are in thousandths,        *)
(* aggregate ratings are in tenths.  The fields service_type, notes,       *)
(* comment, created_at and updated_at are stored verbatim and never read   *)
(* by a handler; they are left out.  Of the descriptive profile fields     *)
(* (names, phone, address, avatar_url, bio, services) only phone is kept.  *)
(***************************************************************************)
EXTENDS Integers, Sequences, FiniteSets, TLC

VARIABLES users, profiles, pets, bookings, reviews, counters, last, inflight

vars == <<users, profiles, pets, bookings, reviews, counters, last, inflight>>

None == <<>>

Some(v) == <<v>>

-----------------------------------------------------------------------------
(* Bounds and input sets *)

MaxBookings == 1

MaxReviews == 2

MaxPets == 1

Users == {"o1", "s1", "s2"}

\* user_type carried by the registration body of each user
UserTypeOf(u) == IF u = "o1" THEN "owner" ELSE "sitter"

BookingIds == 1..MaxBookings

ReviewIds == 1..MaxReviews

PetIds == 1..MaxPets

BookingStatus == {"pending", "confirmed", "completed", "cancelled", "rejected"}

Dates == {1, 2}

Times == {18}

OptTimes == {None} \cup {Some(t) : t \in Times}

RatingInputs == {3, 5, 6}

-----------------------------------------------------------------------------
(* Store helpers: find_one / insert_one / update_one($set) / delete_one *)

Found(coll, id) == id \in DOMAIN coll

\* dict.get(key, default): the default is used only when the key is absent
Get(doc, key, default) == IF key \in DOMAIN doc THEN doc[key] ELSE default

InsertOne(coll, id, doc) == coll @@ (id :> doc)

SetFields(doc, update_data) ==
    [k \in (DOMAIN doc) \cup (DOMAIN update_data) |->
        IF k \in DOMAIN update_data THEN update_data[k] ELSE doc[k]]

UpdateOne(coll, id, update_data) ==
    IF id \in DOMAIN coll
    THEN [coll EXCEPT ![id] = SetFields(coll[id], update_data)]
    ELSE coll

DeleteOne(coll, id) == [x \in (DOMAIN coll) \ {id} |-> coll[x]]

\* the id the store assigns to the next inserted document of a collection:
\* ids are never reused, counters[c] is the number of ids handed out so far
FreshId(c) == counters[c] + 1

Bump(c) == [counters EXCEPT ![c] = @ + 1]

\* what the last request was and how it ended: "ok" (the handler returned),
\* "rejected" (a validation check raised 4xx before any write) or "error"
\* (an exception after the first write, answered 500).  arg is the status an
\* update_booking asked for ("unset" when it carried none), else the caller.
Response(op, arg, result) == [op |-> op, arg |-> arg, result |-> result]

\* get_current_active_user: the caller's user document exists
Authenticated(caller) == users[caller] = "active"

-----------------------------------------------------------------------------
(* auth.py: register_user *)

SitterFields ==
    [hourly_rate |-> None, rating |-> None, rating_count |-> 0]

RegisterProfile(user_type) ==
    IF user_type = "sitter"
    THEN [user_type |-> user_type] @@ SitterFields
    ELSE [user_type |-> user_type]

register_user(u) ==
    /\ users[u] = "none"
    /\ users' = [users EXCEPT ![u] = "active"]
    /\ profiles' = InsertOne(profiles, u, RegisterProfile(UserTypeOf(u)))
    /\ last' = Response("register_user", u, "ok")
    /\ UNCHANGED <<pets, bookings, reviews, counters, inflight>>

-----------------------------------------------------------------------------
(* schemas/profile.py and profiles.py: update_profile_me,                  *)
(* update_sitter_profile_me                                                *)

\* the fields ProfileUpdate declares
ProfileUpdateFields == {"phone"}

\* the fields SitterProfileUpdate declares
SitterProfileUpdateFields == ProfileUpdateFields \cup {"hourly_rate"}

\* a faulty variant: every key of the request body is kept
ParsedBodyKeepAll(raw, fields) == raw

\* parsing of a request body by a schema followed by dict(exclude_unset=True):
\* a key the schema does not declare is ignored
ParsedBody(raw, fields) == [k \in (DOMAIN raw) \cap fields |-> raw[k]]

update_profile_me(caller, raw) ==
    /\ Authenticated(caller)
    /\ IF Found(profiles, caller)
       THEN /\ profiles' = UpdateOne(profiles, caller,
                                     ParsedBody(raw, ProfileUpdateFields))
            /\ last' = Response("update_profile_me", caller, "ok")
       ELSE /\ last' = Response("update_profile_me", caller, "rejected")
            /\ UNCHANGED profiles
    /\ UNCHANGED <<users, pets, bookings, reviews, counters, inflight>>

update_sitter_profile_me(caller, raw) ==
    /\ Authenticated(caller)
    /\ IF Found(profiles, caller) /\ profiles[caller].user_type = "sitter"
       THEN /\ profiles' = UpdateOne(profiles, caller,
                                     ParsedBody(raw, SitterProfileUpdateFields))
            /\ last' = Response("update_sitter_profile_me", caller, "ok")
       ELSE /\ last' = Response("update_sitter_profile_me", caller, "rejected")
            /\ UNCHANGED profiles
    /\ UNCHANGED <<users, pets, bookings, reviews, counters, inflight>>

-----------------------------------------------------------------------------
(* pets.py: create_pet, delete_pet *)

create_pet(caller, owner_id) ==
    /\ Authenticated(caller)
    /\ counters.pets < MaxPets
    /\ IF owner_id # caller
       THEN /\ last' = Response("create_pet", caller, "rejected")
            /\ UNCHANGED <<pets, counters>>
       ELSE /\ pets' = InsertOne(pets, FreshId("pets"), [owner_id |-> owner_id])
            /\ counters' = Bump("pets")
            /\ last' = Response("create_pet", caller, "ok")
    /\ UNCHANGED <<users, profiles, bookings, reviews, inflight>>

HasActiveBooking(pet_id) ==
    \E b \in DOMAIN bookings :
        /\ pet_id \in bookings[b].pet_ids
        /\ bookings[b].status \in {"confirmed", "pending"}

delete_pet(caller, pet_id) ==
    /\ Authenticated(caller)
    /\ IF  /\ Found(pets, pet_id)
           /\ pets[pet_id].owner_id = caller
           /\ ~HasActiveBooking(pet_id)
       THEN /\ pets' = DeleteOne(pets, pet_id)
            /\ last' = Response("delete_pet", caller, "ok")
       ELSE /\ last' = Response("delete_pet", caller, "rejected")
            /\ UNCHANGED pets
    /\ UNCHANGED <<users, profiles, bookings, reviews, counters, inflight>>

-----------------------------------------------------------------------------
(* schemas/booking.py and bookings.py: create_booking *)

\* BookingBase.end_date_must_be_after_start_date
end_date_must_be_after_start_date(body) == ~(body.end_date < body.start_date)

PetsBelongTo(pet_ids, uid) ==
    \A p \in pet_ids : Found(pets, p) /\ pets[p].owner_id = uid

\* total_price before rounding, as the fraction num / den of a cent; rate is
\* the sitter's hourly_rate in thousandths.  A time of day is never falsy.
ComputePrice(rate, body) ==
    IF body.start_time # None /\ body.end_time # None
    THEN [num |-> ((body.end_date - body.start_date) * 48
                     + (body.end_time[1] - body.start_time[1])) * rate,
          den |-> 20]
    ELSE [num |-> ((body.end_date - body.start_date) + 1) * 8 * rate,
          den |-> 10]

\* round(total_price, 2) in cents: the nearest cent, and at an exact decimal
\* tie either neighbour (the double that is rounded is not the decimal)
Round2(num, den, tie_up) ==
    LET q == num \div den
        r == num % den
    IN
    IF 2 * r < den THEN q
    ELSE IF 2 * r > den THEN q + 1
    ELSE IF tie_up THEN q + 1 ELSE q

\* booking_in.dict() with total_price overwritten when a price was computed:
\* `if sitter.get("hourly_rate")` and `if total_price` are tests of truthiness
BookingData(body, sitter, tie_up) ==
    IF sitter.hourly_rate # None /\ sitter.hourly_rate[1] # 0
          /\ ComputePrice(sitter.hourly_rate[1], body).num # 0
    THEN [body EXCEPT !.total_price =
              Some(Round2(ComputePrice(sitter.hourly_rate[1], body).num,
                          ComputePrice(sitter.hourly_rate[1], body).den, tie_up))]
    ELSE body

CreateBookingOutcome(caller, body) ==
    IF ~end_date_must_be_after_start_date(body) THEN "rejected"
    ELSE IF body.owner_id # caller THEN "rejected"
    ELSE IF ~(Found(profiles, body.sitter_id)
               /\ profiles[body.sitter_id].user_type = "sitter") THEN "rejected"
    ELSE IF ~PetsBelongTo(body.pet_ids, caller) THEN "rejected"
    ELSE "ok"

create_booking(caller, body) ==
    /\ Authenticated(caller)
    /\ IF CreateBookingOutcome(caller, body) = "ok"
       THEN /\ counters.bookings < MaxBookings
            /\ \E tie_up \in BOOLEAN :
                  bookings' = InsertOne(bookings, FreshId("bookings"),
                                  BookingData(body, profiles[body.sitter_id], tie_up))
            /\ counters' = Bump("bookings")
       ELSE UNCHANGED <<bookings, counters>>
    /\ last' = Response("create_booking", caller, CreateBookingOutcome(caller, body))
    /\ UNCHANGED <<users, profiles, pets, reviews, inflight>>

-----------------------------------------------------------------------------
(* bookings.py: update_booking *)

\* a faulty variant: the owner's cancellation does not look at the current status
StatusChangeAllowedCancelAnytime(is_owner, is_sitter, current_status, new_status) ==
    \/ is_owner /\ new_status = "cancelled"
    \/ is_sitter /\ new_status = "confirmed" /\ current_status = "pending"
    \/ is_sitter /\ new_status = "rejected" /\ current_status = "pending"
    \/ is_sitter /\ new_status = "completed" /\ current_status = "confirmed"

\* lines 231-250: the checks made when the body carries a status
StatusChangeAllowed(is_owner, is_sitter, current_status, new_status) ==
    \/ is_owner /\ new_status = "cancelled"
                /\ current_status \in {"pending", "confirmed"}
    \/ is_sitter /\ new_status = "confirmed" /\ current_status = "pending"
    \/ is_sitter /\ new_status = "rejected" /\ current_status = "pending"
    \/ is_sitter /\ new_status = "completed" /\ current_status = "confirmed"

DetailKeys == {"start_date", "end_date", "start_time", "end_time", "pet_ids"}

DetailsLocked(is_owner, is_sitter, booking, update_data) ==
    /\ is_owner /\ ~is_sitter
    /\ booking.status # "pending"
    /\ (DOMAIN update_data) \cap DetailKeys # {}

PetsChecked(is_owner, caller, update_data) ==
    ("pet_ids" \in DOMAIN update_data /\ is_owner)
        => PetsBelongTo(update_data.pet_ids, caller)

UpdateBookingOutcome(caller, booking_id, update_data) ==
    IF ~Found(bookings, booking_id) THEN "rejected"
    ELSE LET booking == bookings[booking_id]
             is_owner == booking.owner_id = caller
             is_sitter == booking.sitter_id = caller
         IN  IF ~(is_owner \/ is_sitter) THEN "rejected"
             ELSE IF "status" \in DOMAIN update_data
                      /\ ~StatusChangeAllowed(is_owner, is_sitter,
                                 booking.status, update_data.status)
                  THEN "rejected"
             ELSE IF DetailsLocked(is_owner, is_sitter, booking, update_data)
                  THEN "rejected"
             ELSE IF ~PetsChecked(is_owner, caller, update_data)
                  THEN "rejected"
             ELSE "ok"

\* a faulty variant: the update is written before the request is validated
update_bookingWriteFirst(caller, booking_id, update_data) ==
    /\ Authenticated(caller)
    /\ bookings' = UpdateOne(bookings, booking_id, update_data)
    /\ last' = Response("update_booking", Get(update_data, "status", "unset"),
                        UpdateBookingOutcome(caller, booking_id, update_data))
    /\ UNCHANGED <<users, profiles, pets, reviews, counters, inflight>>

update_booking(caller, booking_id, update_data) ==
    /\ Authenticated(caller)
    /\ bookings' = IF UpdateBookingOutcome(caller, booking_id, update_data) = "ok"
                   THEN UpdateOne(bookings, booking_id, update_data)
                   ELSE bookings
    /\ last' = Response("update_booking", Get(update_data, "status", "unset"),
                        UpdateBookingOutcome(caller, booking_id, update_data))
    /\ UNCHANGED <<users, profiles, pets, reviews, counters, inflight>>

-----------------------------------------------------------------------------
(* bookings.py: delete_booking *)

\* a faulty variant: the status of the booking is not looked at
DeleteBookingOutcomeAnyStatus(caller, booking_id) ==
    IF ~Found(bookings, booking_id) THEN "rejected"
    ELSE IF bookings[booking_id].owner_id # caller THEN "rejected"
    ELSE "ok"

DeleteBookingOutcome(caller, booking_id) ==
    IF ~Found(bookings, booking_id) THEN "rejected"
    ELSE IF bookings[booking_id].owner_id # caller THEN "rejected"
    ELSE IF bookings[booking_id].status # "pending" THEN "rejected"
    ELSE "ok"

delete_booking(caller, booking_id) ==
    /\ Authenticated(caller)
    /\ bookings' = IF DeleteBookingOutcome(caller, booking_id) = "ok"
                   THEN DeleteOne(bookings, booking_id)
                   ELSE bookings
    /\ last' = Response("delete_booking", caller,
                        DeleteBookingOutcome(caller, booking_id))
    /\ UNCHANGED <<users, profiles, pets, reviews, counters, inflight>>

-----------------------------------------------------------------------------
(* users.py: delete_user_me *)

\* update_many({$or: [owner_id, sitter_id]}, {$set: {status: "cancelled"}})
CancelBookingsOf(uid) ==
    [b \in DOMAIN bookings |->
        IF bookings[b].owner_id = uid \/ bookings[b].sitter_id = uid
        THEN SetFields(bookings[b], [status |-> "cancelled"])
        ELSE bookings[b]]

\* delete_many({owner_id: uid})
DeletePetsOf(uid) ==
    [p \in {q \in DOMAIN pets : pets[q].owner_id # uid} |-> pets[p]]

delete_user_me(caller) ==
    /\ Authenticated(caller)
    /\ users' = [users EXCEPT ![caller] = "deleted"]
    /\ profiles' = DeleteOne(profiles, caller)
    /\ pets' = DeletePetsOf(caller)
    /\ bookings' = CancelBookingsOf(caller)
    /\ last' = Response("delete_user_me", caller, "ok")
    /\ UNCHANGED <<reviews, counters, inflight>>

-----------------------------------------------------------------------------
(* reviews.py: the read-modify-write of the sitter's (rating, rating_count) *)

\* round(num / den, 1) in tenths, for num/den already in tenths.  Python
\* rounds the binary double: off a decimal tie the result is the nearest
\* tenth; at an exact decimal tie the direction depends on the
\* representation error of the operands, so both neighbours are admitted
\* and tie_up selects one.
Round1(num, den, tie_up) ==
    LET q == num \div den
        r == num % den
    IN
    IF 2 * r < den THEN q
    ELSE IF 2 * r > den THEN q + 1
    ELSE IF tie_up THEN q + 1 ELSE q

NoWrite == [error |-> FALSE, set |-> <<>>]

Raise == [error |-> TRUE, set |-> <<>>]

Write(update_data) == [error |-> FALSE, set |-> update_data]

\* a variant: a stored rating of null is counted as 0, so the first review
\* of a sitter can be added
AddAggregateNullAsZero(sitter, rating, tie_up) ==
    LET current_rating == Get(sitter, "rating", Some(0))
        current_count == Get(sitter, "rating_count", 0)
        new_count == current_count + 1
        value == IF current_rating = None THEN 0 ELSE current_rating[1]
    IN  Write([rating |-> Some(Round1(value * current_count + 10 * rating,
                                      new_count, tie_up)),
               rating_count |-> new_count])

\* create_review, lines 84-101
AddAggregate(sitter, rating, tie_up) ==
    LET current_rating == Get(sitter, "rating", Some(0))
        current_count == Get(sitter, "rating_count", 0)
        new_count == current_count + 1
    IN  IF current_rating = None THEN Raise
        ELSE Write([rating |-> Some(Round1(current_rating[1] * current_count
                                             + 10 * rating, new_count, tie_up)),
                    rating_count |-> new_count])

\* a faulty variant: an edited rating is counted as one more review
EditAggregateCounting(sitter, old_rating, new_rating, tie_up) ==
    LET current_count == Get(sitter, "rating_count", 0)
    IN  Write([rating |-> new_rating, rating_count |-> current_count + 1])

\* update_review, lines 248-266
EditAggregate(sitter, old_rating, new_rating, tie_up) ==
    LET current_rating == Get(sitter, "rating", Some(0))
        current_count == Get(sitter, "rating_count", 0)
    IN  IF ~(current_count > 0) THEN NoWrite
        ELSE IF current_rating = None \/ old_rating = None \/ new_rating = None
             THEN Raise
        ELSE Write([rating |-> Some(Round1(current_rating[1] * current_count
                                             - 10 * old_rating[1]
                                             + 10 * new_rating[1],
                                           current_count, tie_up))])

\* a faulty variant: without the recomputation guard, every deletion resets
\* the rating and decrements the count
RemoveAggregateAlwaysDecrement(sitter, removed_rating, tie_up) ==
    LET current_count == Get(sitter, "rating_count", 0)
    IN  Write([rating |-> None, rating_count |-> current_count - 1])

\* delete_review, lines 323-352
RemoveAggregate(sitter, removed_rating, tie_up) ==
    LET current_rating == Get(sitter, "rating", Some(0))
        current_count == Get(sitter, "rating_count", 0)
    IN  IF current_count > 1
        THEN IF current_rating = None \/ removed_rating = None THEN Raise
             ELSE Write([rating |-> Some(Round1(current_rating[1] * current_count
                                                  - 10 * removed_rating[1],
                                                current_count - 1, tie_up)),
                         rating_count |-> current_count - 1])
        ELSE IF current_count = 1
             THEN Write([rating |-> None, rating_count |-> 0])
        ELSE NoWrite

\* the profile write of a review handler and the handler's result
ApplyAggregate(sitter_id, agg) ==
    profiles' = IF agg.error THEN profiles
                ELSE UpdateOne(profiles, sitter_id, agg.set)

ResultOf(agg) == IF agg.error THEN "error" ELSE "ok"

-----------------------------------------------------------------------------
(* schemas/review.py and reviews.py: create_review, update_review, delete_review *)

\* ReviewBase.rating_must_be_between_1_and_5
rating_must_be_between_1_and_5(v) == ~(v < 1 \/ v > 5)

\* ReviewUpdate.rating_must_be_between_1_and_5
update_rating_must_be_between_1_and_5(v) ==
    ~(v # None /\ (v[1] < 1 \/ v[1] > 5))

ReviewForBooking(booking_id) ==
    \E r \in DOMAIN reviews : reviews[r].booking_id = booking_id

\* a faulty variant: the status of the booking is not looked at
CreateReviewAcceptedAnyStatus(caller, body) ==
    /\ rating_must_be_between_1_and_5(body.rating)
    /\ body.owner_id = caller
    /\ Found(bookings, body.booking_id)
    /\ bookings[body.booking_id].owner_id = caller
    /\ body.sitter_id = bookings[body.booking_id].sitter_id
    /\ ~ReviewForBooking(body.booking_id)

CreateReviewAccepted(caller, body) ==
    /\ rating_must_be_between_1_and_5(body.rating)
    /\ body.owner_id = caller
    /\ Found(bookings, body.booking_id)
    /\ bookings[body.booking_id].owner_id = caller
    /\ bookings[body.booking_id].status = "completed"
    /\ body.sitter_id = bookings[body.booking_id].sitter_id
    /\ ~ReviewForBooking(body.booking_id)

\* review_in.dict(): the stored rating is the validated integer
ReviewData(body) ==
    [booking_id |-> body.booking_id, owner_id |-> body.owner_id,
     sitter_id |-> body.sitter_id, rating |-> Some(body.rating)]

create_review(caller, body) ==
    /\ Authenticated(caller)
    /\ IF ~CreateReviewAccepted(caller, body)
       THEN /\ last' = Response("create_review", caller, "rejected")
            /\ UNCHANGED <<reviews, profiles, counters>>
       ELSE /\ counters.reviews < MaxReviews
            /\ reviews' = InsertOne(reviews, FreshId("reviews"), ReviewData(body))
            /\ counters' = Bump("reviews")
            /\ IF Found(profiles, body.sitter_id)
               THEN \E tie_up \in BOOLEAN :
                      LET agg == AddAggregate(profiles[body.sitter_id],
                                              body.rating, tie_up)
                      IN  /\ ApplyAggregate(body.sitter_id, agg)
                          /\ last' = Response("create_review", caller, ResultOf(agg))
               ELSE /\ UNCHANGED profiles
                    /\ last' = Response("create_review", caller, "ok")
    /\ UNCHANGED <<users, pets, bookings, inflight>>

UpdateReviewAccepted(caller, review_id, update_data) ==
    /\ ("rating" \in DOMAIN update_data
            => update_rating_must_be_between_1_and_5(update_data.rating))
    /\ Found(reviews, review_id)
    /\ reviews[review_id].owner_id = caller

update_review(caller, review_id, update_data) ==
    /\ Authenticated(caller)
    /\ IF ~UpdateReviewAccepted(caller, review_id, update_data)
       THEN /\ last' = Response("update_review", caller, "rejected")
            /\ UNCHANGED <<reviews, profiles>>
       ELSE LET review == reviews[review_id]
            IN  /\ reviews' = UpdateOne(reviews, review_id, update_data)
                /\ IF /\ "rating" \in DOMAIN update_data
                      /\ review.rating # update_data.rating
                      /\ Found(profiles, review.sitter_id)
                   THEN \E tie_up \in BOOLEAN :
                          LET agg == EditAggregate(profiles[review.sitter_id],
                                         review.rating, update_data.rating, tie_up)
                          IN  /\ ApplyAggregate(review.sitter_id, agg)
                              /\ last' = Response("update_review", caller,
                                                  ResultOf(agg))
                   ELSE /\ UNCHANGED profiles
                        /\ last' = Response("update_review", caller, "ok")
    /\ UNCHANGED <<users, pets, bookings, counters, inflight>>

\* a faulty variant: the owner of the review is not looked at
DeleteReviewAcceptedAnyCaller(caller, review_id) ==
    Found(reviews, review_id)

DeleteReviewAccepted(caller, review_id) ==
    /\ Found(reviews, review_id)
    /\ reviews[review_id].owner_id = caller

delete_review(caller, review_id) ==
    /\ Authenticated(caller)
    /\ IF ~DeleteReviewAccepted(caller, review_id)
       THEN /\ last' = Response("delete_review", caller, "rejected")
            /\ UNCHANGED <<reviews, profiles>>
       ELSE LET review == reviews[review_id]
            IN  /\ reviews' = DeleteOne(reviews, review_id)
                /\ IF Found(profiles, review.sitter_id)
                   THEN \E tie_up \in BOOLEAN :
                          LET agg == RemoveAggregate(profiles[review.sitter_id],
                                                     review.rating, tie_up)
                          IN  /\ ApplyAggregate(review.sitter_id, agg)
                              /\ last' = Response("delete_review", caller,
                                                  ResultOf(agg))
                   ELSE /\ UNCHANGED profiles
                        /\ last' = Response("delete_review", caller, "ok")
    /\ UNCHANGED <<users, pets, bookings, counters, inflight>>

-----------------------------------------------------------------------------
(* Requests in flight.  A handler is a coroutine: it can be suspended at    *)
(* every await of a store call, and another request can run in between.    *)
(* Each action below is the code from one await up to the next one.        *)
(* inflight maps a request slot to the position and the local variables of *)
(* its request; a finished request keeps its slot with pc = "done".        *)

\* the two requests that run side by side
Slots == {"a", "b"}

Running == {k \in DOMAIN inflight : inflight[k].pc # "done"}

\* a request entering its handler; `with` is the set of requests that were
\* running at that moment
Request(op, caller, arg, pc, locals) ==
    locals @@ [op |-> op, caller |-> caller, arg |-> arg, pc |-> pc,
               result |-> "none", with |-> Running,
               review_id |-> 0, review |-> None, seen |-> None, agg |-> NoWrite]

At(k, op, pc) ==
    /\ k \in DOMAIN inflight
    /\ inflight[k].op = op
    /\ inflight[k].pc = pc

Enter(k, request) ==
    /\ inflight' = inflight @@ (k :> request)
    /\ UNCHANGED last

Goto(k, pc, locals) ==
    /\ inflight' = [inflight EXCEPT ![k] = SetFields(@, locals @@ [pc |-> pc])]
    /\ UNCHANGED last

Return(k, result) ==
    /\ inflight' = [inflight EXCEPT
                       ![k] = SetFields(@, [pc |-> "done", result |-> result])]
    /\ last' = Response(inflight[k].op, inflight[k].arg, result)

\* a whole create_review request served while no other request is in flight
create_review_alone(caller, body) ==
    /\ Running = {}
    /\ create_review(caller, body)

\* update_booking, lines 204-273: find_one and every check on what it returned
update_booking_start(k, caller, booking_id, update_data) ==
    /\ k \notin DOMAIN inflight
    /\ Authenticated(caller)
    /\ IF UpdateBookingOutcome(caller, booking_id, update_data) = "ok"
       THEN Enter(k, Request("update_booking",
                             caller, Get(update_data, "status", "unset"), "update",
                             [booking_id |-> booking_id, body |-> update_data,
                              booking |-> bookings[booking_id]]))
       ELSE /\ last' = Response("update_booking",
                                Get(update_data, "status", "unset"), "rejected")
            /\ UNCHANGED inflight
    /\ UNCHANGED <<users, profiles, pets, bookings, reviews, counters>>

\* update_booking, lines 279-282: update_one({_id}, {$set: update_data})
update_booking_update(k) ==
    /\ At(k, "update_booking", "update")
    /\ bookings' = UpdateOne(bookings, inflight[k].booking_id, inflight[k].body)
    /\ Goto(k, "find_updated", <<>>)
    /\ UNCHANGED <<users, profiles, pets, reviews, counters>>

\* update_booking, lines 285-288: find_one, and None["id"] raises
update_booking_find_updated(k) ==
    /\ At(k, "update_booking", "find_updated")
    /\ Return(k, IF Found(bookings, inflight[k].booking_id) THEN "ok" ELSE "error")
    /\ UNCHANGED <<users, profiles, pets, bookings, reviews, counters>>

\* delete_booking, lines 307-334: find_one and the checks on what it returned
delete_booking_start(k, caller, booking_id) ==
    /\ k \notin DOMAIN inflight
    /\ Authenticated(caller)
    /\ IF DeleteBookingOutcome(caller, booking_id) = "ok"
       THEN Enter(k, Request("delete_booking", caller, caller, "delete",
                             [booking_id |-> booking_id, body |-> <<>>,
                              booking |-> bookings[booking_id]]))
       ELSE /\ last' = Response("delete_booking", caller, "rejected")
            /\ UNCHANGED inflight
    /\ UNCHANGED <<users, profiles, pets, bookings, reviews, counters>>

\* delete_booking, lines 337-348: delete_one({_id}); the 404 raised on
\* deleted_count == 0 is caught by the handler's own except and answered 500
delete_booking_delete(k) ==
    /\ At(k, "delete_booking", "delete")
    /\ bookings' = DeleteOne(bookings, inflight[k].booking_id)
    /\ Return(k, IF Found(bookings, inflight[k].booking_id) THEN "ok" ELSE "error")
    /\ UNCHANGED <<users, profiles, pets, reviews, counters>>

\* create_review, lines 24-64: the checks on the body and on the booking
BookingChecked(caller, body) ==
    /\ rating_must_be_between_1_and_5(body.rating)
    /\ body.owner_id = caller
    /\ Found(bookings, body.booking_id)
    /\ bookings[body.booking_id].owner_id = caller
    /\ bookings[body.booking_id].status = "completed"
    /\ body.sitter_id = bookings[body.booking_id].sitter_id

create_review_start(k, caller, body) ==
    /\ k \notin DOMAIN inflight
    /\ Authenticated(caller)
    /\ IF BookingChecked(caller, body)
       THEN Enter(k, Request("create_review", caller, caller, "find_existing",
                             [body |-> body]))
       ELSE /\ last' = Response("create_review", caller, "rejected")
            /\ UNCHANGED inflight
    /\ UNCHANGED <<users, profiles, pets, bookings, reviews, counters>>

\* create_review, lines 67-72: find_one({booking_id})
create_review_find_existing(k) ==
    /\ At(k, "create_review", "find_existing")
    /\ IF ReviewForBooking(inflight[k].body.booking_id)
       THEN Return(k, "rejected")
       ELSE Goto(k, "insert", <<>>)
    /\ UNCHANGED <<users, profiles, pets, bookings, reviews, counters>>

\* create_review, lines 80-81: insert_one
create_review_insert(k) ==
    /\ At(k, "create_review", "insert")
    /\ counters.reviews < MaxReviews
    /\ reviews' = InsertOne(reviews, FreshId("reviews"), ReviewData(inflight[k].body))
    /\ counters' = Bump("reviews")
    /\ Goto(k, "find_sitter", [review_id |-> FreshId("reviews")])
    /\ UNCHANGED <<users, profiles, pets, bookings>>

\* create_review, lines 84-91: find_one of the profile and the new aggregate
create_review_find_sitter(k) ==
    /\ At(k, "create_review", "find_sitter")
    /\ LET body == inflight[k].body
       IN  IF Found(profiles, body.sitter_id)
           THEN \E tie_up \in BOOLEAN :
                  LET agg == AddAggregate(profiles[body.sitter_id], body.rating, tie_up)
                  IN  IF agg.error
                      THEN Return(k, "error")
                      ELSE Goto(k, "update_sitter",
                                [seen |-> Some(profiles[body.sitter_id]), agg |-> agg])
           ELSE Goto(k, "update_sitter", <<>>)
    /\ UNCHANGED <<users, profiles, pets, bookings, reviews, counters>>

\* create_review, lines 94-101: update_one of the profile (inside `if sitter`)
create_review_update_sitter(k) ==
    /\ At(k, "create_review", "update_sitter")
    /\ ApplyAggregate(inflight[k].body.sitter_id, inflight[k].agg)
    /\ Goto(k, "find_created", <<>>)
    /\ UNCHANGED <<users, pets, bookings, reviews, counters>>

\* create_review, lines 104-107: find_one, and None["id"] raises
create_review_find_created(k) ==
    /\ At(k, "create_review", "find_created")
    /\ Return(k, IF Found(reviews, inflight[k].review_id) THEN "ok" ELSE "error")
    /\ UNCHANGED <<users, profiles, pets, bookings, reviews, counters>>

\* update_review, lines 210-233: find_one and the owner check
update_review_start(k, caller, review_id, update_data) ==
    /\ k \notin DOMAIN inflight
    /\ Authenticated(caller)
    /\ IF UpdateReviewAccepted(caller, review_id, update_data)
       THEN Enter(k, Request("update_review", caller, caller, "update",
                             [body |-> update_data, review_id |-> review_id,
                              review |-> Some(reviews[review_id])]))
       ELSE /\ last' = Response("update_review", caller, "rejected")
            /\ UNCHANGED inflight
    /\ UNCHANGED <<users, profiles, pets, bookings, reviews, counters>>

\* update_review, lines 237-247: update_one, then the test on the two ratings
update_review_update(k) ==
    /\ At(k, "update_review", "update")
    /\ reviews' = UpdateOne(reviews, inflight[k].review_id, inflight[k].body)
    /\ IF /\ "rating" \in DOMAIN inflight[k].body
          /\ inflight[k].review[1].rating # inflight[k].body.rating
       THEN Goto(k, "find_sitter", <<>>)
       ELSE Goto(k, "find_updated", <<>>)
    /\ UNCHANGED <<users, profiles, pets, bookings, counters>>

\* update_review, lines 248-256: find_one of the profile and the new rating
update_review_find_sitter(k) ==
    /\ At(k, "update_review", "find_sitter")
    /\ LET review == inflight[k].review[1]
       IN  IF Found(profiles, review.sitter_id)
           THEN \E tie_up \in BOOLEAN :
                  LET agg == EditAggregate(profiles[review.sitter_id], review.rating,
                                           inflight[k].body.rating, tie_up)
                  IN  IF agg.error
                      THEN Return(k, "error")
                      ELSE Goto(k, "update_sitter",
                                [seen |-> Some(profiles[review.sitter_id]), agg |-> agg])
           ELSE Goto(k, "update_sitter", <<>>)
    /\ UNCHANGED <<users, profiles, pets, bookings, reviews, counters>>

\* update_review, lines 259-265: update_one of the profile (inside the ifs)
update_review_update_sitter(k) ==
    /\ At(k, "update_review", "update_sitter")
    /\ ApplyAggregate(inflight[k].review[1].sitter_id, inflight[k].agg)
    /\ Goto(k, "find_updated", <<>>)
    /\ UNCHANGED <<users, pets, bookings, reviews, counters>>

\* update_review, lines 269-272: find_one, and None["id"] raises
update_review_find_updated(k) ==
    /\ At(k, "update_review", "find_updated")
    /\ Return(k, IF Found(reviews, inflight[k].review_id) THEN "ok" ELSE "error")
    /\ UNCHANGED <<users, profiles, pets, bookings, reviews, counters>>

\* delete_review, lines 291-310: find_one and the owner check
delete_review_start(k, caller, review_id) ==
    /\ k \notin DOMAIN inflight
    /\ Authenticated(caller)
    /\ IF DeleteReviewAccepted(caller, review_id)
       THEN Enter(k, Request("delete_review", caller, caller, "delete",
                             [body |-> <<>>, review_id |-> review_id,
                              review |-> Some(reviews[review_id])]))
       ELSE /\ last' = Response("delete_review", caller, "rejected")
            /\ UNCHANGED inflight
    /\ UNCHANGED <<users, profiles, pets, bookings, reviews, counters>>

\* delete_review, lines 314-320: delete_one; the 404 raised on
\* deleted_count == 0 is caught by the handler's own except and answered 500
delete_review_delete(k) ==
    /\ At(k, "delete_review", "delete")
    /\ IF Found(reviews, inflight[k].review_id)
       THEN /\ reviews' = DeleteOne(reviews, inflight[k].review_id)
            /\ Goto(k, "find_sitter", <<>>)
       ELSE /\ UNCHANGED reviews
            /\ Return(k, "error")
    /\ UNCHANGED <<users, profiles, pets, bookings, counters>>

\* delete_review, lines 323-331: find_one of the profile and the new aggregate
delete_review_find_sitter(k) ==
    /\ At(k, "delete_review", "find_sitter")
    /\ LET review == inflight[k].review[1]
       IN  IF Found(profiles, review.sitter_id)
           THEN \E tie_up \in BOOLEAN :
                  LET agg == RemoveAggregate(profiles[review.sitter_id],
                                             review.rating, tie_up)
                  IN  IF agg.error
                      THEN Return(k, "error")
                      ELSE Goto(k, "update_sitter",
                                [seen |-> Some(profiles[review.sitter_id]), agg |-> agg])
           ELSE Goto(k, "update_sitter", <<>>)
    /\ UNCHANGED <<users, profiles, pets, bookings, reviews, counters>>

\* delete_review, lines 334-355: update_one of the profile, then the return
delete_review_update_sitter(k) ==
    /\ At(k, "delete_review", "update_sitter")
    /\ ApplyAggregate(inflight[k].review[1].sitter_id, inflight[k].agg)
    /\ Return(k, "ok")
    /\ UNCHANGED <<users, pets, bookings, reviews, counters>>

-----------------------------------------------------------------------------
(* The system *)

Init ==
    /\ users = [u \in Users |-> "none"]
    /\ profiles = <<>>
    /\ pets = <<>>
    /\ bookings = <<>>
    /\ reviews = <<>>
    /\ counters = [pets |-> 0, bookings |-> 0, reviews |-> 0]
    /\ last = Response("init", "none", "ok")
    /\ inflight = <<>>

NullStatus == "null"

StatusBodies == {[status |-> st] : st \in BookingStatus \cup {NullStatus}}

\* one request per detail field; bookings are created with start_date 1,
\* so the first one moves the start date past the end date
DetailBodies ==
    {[start_date |-> 2], [end_date |-> 1], [start_time |-> None],
     [end_time |-> None], [pet_ids |-> {}]}

\* a status change together with a detail change
CombinedBodies ==
    {st @@ [start_date |-> 2] : st \in StatusBodies}

UpdateBookingBodies ==
    {<<>>} \cup StatusBodies \cup DetailBodies \cup CombinedBodies

\* sitter_id of a request: a registered sitter or a user who is no sitter
SitterInputs == {"s1", "o1"}

\* owner_id of a request: an owner, or a sitter booking another sitter
OwnerInputs == {"o1", "s2"}

\* a booking request that leaves status at its default and carries no pets
PlainBookingBodies ==
    [owner_id : OwnerInputs, sitter_id : SitterInputs, pet_ids : {{}},
     start_date : {1}, end_date : {1}, start_time : {None}, end_time : {None},
     status : {"pending"}, total_price : {None}]

\* The booking lifecycle: registration, bookings, account deletion.
Next ==
    \/ \E u \in Users : register_user(u)
    \/ \E c \in Users : delete_user_me(c)
    \/ \E c \in Users, body \in PlainBookingBodies : create_booking(c, body)
    \/ \E c \in Users, b \in BookingIds, body \in UpdateBookingBodies :
          update_booking(c, b, body)
    \/ \E c \in Users, b \in BookingIds : delete_booking(c, b)

Spec == Init /\ [][Next]_vars

\* Booking creation: bodies the BookingCreate schema admits, with and
\* without pets and times, with status left at its default or set.
CreateBookingBodies ==
    [owner_id : OwnerInputs, sitter_id : SitterInputs, pet_ids : SUBSET PetIds,
     start_date : Dates, end_date : Dates,
     start_time : OptTimes, end_time : OptTimes,
     status : {"pending", "completed"}, total_price : {None}]

NextCreate ==
    \/ \E u \in Users : register_user(u)
    \/ \E c \in Users, owner_id \in OwnerInputs : create_pet(c, owner_id)
    \/ \E c \in Users, p \in PetIds : delete_pet(c, p)
    \/ \E c \in Users, body \in CreateBookingBodies : create_booking(c, body)

SpecCreate == Init /\ [][NextCreate]_vars

\* The review workflow: bookings are requested with fixed details and walk
\* through the status transitions; reviews are created, edited and deleted.

CreateReviewBodies ==
    [booking_id : BookingIds, owner_id : Users, sitter_id : Users,
     rating : RatingInputs]

UpdateReviewBodies ==
    {<<>>, [rating |-> None]} \cup {[rating |-> Some(v)] : v \in RatingInputs}

NextReview ==
    \/ \E u \in Users : register_user(u)
    \/ \E c \in Users : delete_user_me(c)
    \/ \E c \in Users, body \in PlainBookingBodies : create_booking(c, body)
    \/ \E c \in Users, b \in BookingIds, body \in StatusBodies :
          update_booking(c, b, body)
    \/ \E c \in Users, body \in CreateReviewBodies : create_review(c, body)
    \/ \E c \in Users, r \in ReviewIds, body \in UpdateReviewBodies :
          update_review(c, r, body)
    \/ \E c \in Users, r \in ReviewIds : delete_review(c, r)

SpecReview == Init /\ [][NextReview]_vars

\* Bookings and reviews together: every booking and review operation,
\* each with requests that pass and requests that fail its checks.
FrameBookingUpdates == StatusBodies \cup {[start_date |-> 2]}

FrameReviewBodies ==
    [booking_id : BookingIds, owner_id : OwnerInputs, sitter_id : SitterInputs,
     rating : {3, 6}]

FrameReviewUpdates == {[rating |-> Some(5)], [rating |-> Some(6)]}

NextAll ==
    \/ \E u \in Users : register_user(u)
    \/ \E c \in Users, body \in PlainBookingBodies : create_booking(c, body)
    \/ \E c \in Users, b \in BookingIds, body \in FrameBookingUpdates :
          update_booking(c, b, body)
    \/ \E c \in Users, b \in BookingIds : delete_booking(c, b)
    \/ \E c \in Users, body \in FrameReviewBodies : create_review(c, body)
    \/ \E c \in Users, r \in ReviewIds, body \in FrameReviewUpdates :
          update_review(c, r, body)
    \/ \E c \in Users, r \in ReviewIds : delete_review(c, r)

SpecAll == Init /\ [][NextAll]_vars

\* The aggregate under a fixed list of additions: the owner o1 holds
\* MaxAdds completed bookings with the freshly registered sitter s1 and has
\* sent one accepted create_review request for each; the requests are
\* carried out one at a time, in any order.
MaxAdds == 3

AggregateRatings == {3, 4, 5}

CompletedBooking ==
    [owner_id |-> "o1", sitter_id |-> "s1", pet_ids |-> {},
     start_date |-> 1, end_date |-> 1, start_time |-> None, end_time |-> None,
     status |-> "completed", total_price |-> None]

AddRequests ==
    {[i \in 1..MaxAdds |-> [op |-> "create_review", booking_id |-> i,
                             rating |-> rs[i]]] : rs \in [1..MaxAdds -> AggregateRatings]}

InitAggregate ==
    /\ users = [u \in Users |-> IF u \in {"o1", "s1"} THEN "active" ELSE "none"]
    /\ profiles = [u \in {"o1", "s1"} |-> RegisterProfile(UserTypeOf(u))]
    /\ pets = <<>>
    /\ bookings = [b \in 1..MaxAdds |-> CompletedBooking]
    /\ reviews = <<>>
    /\ counters = [pets |-> 0, bookings |-> MaxAdds, reviews |-> 0]
    /\ last = Response("init", "none", "ok")
    /\ inflight \in AddRequests

\* create_review, lines 74-114, for a request that has passed the checks
apply_add(i) ==
    /\ i \in DOMAIN inflight
    /\ LET req == inflight[i]
           body == [booking_id |-> req.booking_id, owner_id |-> "o1",
                    sitter_id |-> "s1", rating |-> req.rating]
       IN  /\ reviews' = InsertOne(reviews, FreshId("reviews"), ReviewData(body))
           /\ counters' = Bump("reviews")
           /\ \E tie_up \in BOOLEAN :
                 LET agg == AddAggregate(profiles[body.sitter_id], body.rating, tie_up)
                 IN  /\ ApplyAggregate(body.sitter_id, agg)
                     /\ last' = Response("create_review", "o1", ResultOf(agg))
    /\ inflight' = DeleteOne(inflight, i)
    /\ UNCHANGED <<users, pets, bookings>>

NextAggregate == \E i \in 1..MaxAdds : apply_add(i)

SpecAggregate == InitAggregate /\ [][NextAggregate]_vars

\* Two requests side by side.  The users of these systems are one owner and
\* one sitter; the bookings are made by requests that run alone.
RaceUsers == {"o1", "s1"}

RaceStatusBodies == {[status |-> st] : st \in BookingStatus}

\* update_booking step by step, two requests at a time
NextRaceBooking ==
    \/ \E u \in RaceUsers : register_user(u)
    \/ \E c \in RaceUsers, body \in PlainBookingBodies : create_booking(c, body)
    \/ \E c \in RaceUsers, b \in BookingIds : delete_booking(c, b)
    \/ \E k \in Slots, c \in RaceUsers, b \in BookingIds, body \in RaceStatusBodies :
          update_booking_start(k, c, b, body)
    \/ \E k \in Slots : update_booking_update(k)
    \/ \E k \in Slots : update_booking_find_updated(k)

SpecRaceBooking == Init /\ [][NextRaceBooking]_vars

RaceReviewBodies ==
    [booking_id : BookingIds, owner_id : {"o1"}, sitter_id : {"s1"}, rating : {3}]

RaceReviewUpdates == {[rating |-> Some(3)], [rating |-> Some(5)]}

\* the review handlers step by step, two requests at a time
NextRaceReview ==
    \/ \E u \in RaceUsers : register_user(u)
    \/ delete_user_me("s1")
    \/ \E body \in PlainBookingBodies : create_booking("o1", body)
    \/ \E b \in BookingIds, body \in {[status |-> "confirmed"], [status |-> "completed"]} :
          update_booking("s1", b, body)
    \/ \E body \in RaceReviewBodies : create_review_alone("o1", body)
    \/ \E k \in Slots, c \in RaceUsers, body \in RaceReviewBodies :
          create_review_start(k, c, body)
    \/ \E k \in Slots : create_review_find_existing(k)
    \/ \E k \in Slots : create_review_insert(k)
    \/ \E k \in Slots : create_review_find_sitter(k)
    \/ \E k \in Slots : create_review_update_sitter(k)
    \/ \E k \in Slots : create_review_find_created(k)
    \/ \E k \in Slots, c \in RaceUsers, r \in ReviewIds, body \in RaceReviewUpdates :
          update_review_start(k, c, r, body)
    \/ \E k \in Slots : update_review_update(k)
    \/ \E k \in Slots : update_review_find_sitter(k)
    \/ \E k \in Slots : update_review_update_sitter(k)
    \/ \E k \in Slots : update_review_find_updated(k)
    \/ \E k \in Slots, c \in RaceUsers, r \in ReviewIds : delete_review_start(k, c, r)
    \/ \E k \in Slots : delete_review_delete(k)
    \/ \E k \in Slots : delete_review_find_sitter(k)
    \/ \E k \in Slots : delete_review_update_sitter(k)

SpecRaceReview == Init /\ [][NextRaceReview]_vars

\* Pets and the bookings that list them.
PetBookingBodies ==
    [owner_id : OwnerInputs, sitter_id : SitterInputs, pet_ids : SUBSET PetIds,
     start_date : {1}, end_date : {1}, start_time : {None}, end_time : {None},
     status : {"pending"}, total_price : {None}]

PetUpdateBodies ==
    {[pet_ids |-> ps] : ps \in SUBSET PetIds}
        \cup {[status |-> st] : st \in {"confirmed", "completed", "cancelled"}}

NextPets ==
    \/ \E u \in Users : register_user(u)
    \/ \E c \in Users, owner_id \in OwnerInputs : create_pet(c, owner_id)
    \/ \E c \in Users, p \in PetIds : delete_pet(c, p)
    \/ \E c \in Users, body \in PetBookingBodies : create_booking(c, body)
    \/ \E c \in Users, b \in BookingIds, body \in PetUpdateBodies :
          update_booking(c, b, body)

SpecPets == Init /\ [][NextPets]_vars

\* Prices: sitters set their hourly rate, owners book them.
RateInputs == {None, Some(0), Some(10000), Some(10005)}

PriceTimes == {None, Some(18), Some(23)}

PriceBookingBodies ==
    [owner_id : {"o1"}, sitter_id : {"s1"}, pet_ids : {{}},
     start_date : Dates, end_date : Dates,
     start_time : PriceTimes, end_time : PriceTimes,
     status : {"pending"}, total_price : {None, Some(99900)}]

NextPrice ==
    \/ \E u \in Users : register_user(u)
    \/ \E c \in Users, r \in RateInputs :
          update_sitter_profile_me(c, [hourly_rate |-> r])
    \/ \E c \in Users, body \in PriceBookingBodies : create_booking(c, body)

SpecPrice == Init /\ [][NextPrice]_vars

\* Profile updates next to the booking operations.  The request bodies carry
\* keys the schemas do not declare.
RawProfileBodies ==
    {[phone |-> "p"],
     [phone |-> "p", rating |-> Some(50), rating_count |-> 3],
     [hourly_rate |-> Some(10000), rating |-> Some(50), rating_count |-> 3]}

NextProfile ==
    \/ \E u \in RaceUsers : register_user(u)
    \/ \E c \in RaceUsers, raw \in RawProfileBodies : update_profile_me(c, raw)
    \/ \E c \in RaceUsers, raw \in RawProfileBodies : update_sitter_profile_me(c, raw)
    \/ \E c \in RaceUsers, body \in PlainBookingBodies : create_booking(c, body)
    \/ \E c \in RaceUsers, b \in BookingIds, body \in RaceStatusBodies :
          update_booking(c, b, body)
    \/ \E c \in RaceUsers, b \in BookingIds : delete_booking(c, b)

SpecProfile == Init /\ [][NextProfile]_vars

\* delete_booking and update_booking step by step, two requests at a time
NextRaceDelete ==
    \/ \E u \in RaceUsers : register_user(u)
    \/ \E c \in RaceUsers, body \in PlainBookingBodies : create_booking(c, body)
    \/ \E k \in Slots, c \in RaceUsers, b \in BookingIds, body \in RaceStatusBodies :
          update_booking_start(k, c, b, body)
    \/ \E k \in Slots : update_booking_update(k)
    \/ \E k \in Slots : update_booking_find_updated(k)
    \/ \E k \in Slots, c \in RaceUsers, b \in BookingIds : delete_booking_start(k, c, b)
    \/ \E k \in Slots : delete_booking_delete(k)

SpecRaceDelete == Init /\ [][NextRaceDelete]_vars

\* Editing reviews: an owner and a sitter who may delete their account,
\* bookings walked to completion, reviews created, edited with every kind
\* of body and deleted.
EditReviewBodies ==
    [booking_id : BookingIds, owner_id : {"o1"}, sitter_id : {"s1"},
     rating : {3, 5}]

NextEdit ==
    \/ \E u \in RaceUsers : register_user(u)
    \/ delete_user_me("s1")
    \/ \E c \in RaceUsers, body \in PlainBookingBodies : create_booking(c, body)
    \/ \E c \in RaceUsers, b \in BookingIds, body \in RaceStatusBodies :
          update_booking(c, b, body)
    \/ \E c \in RaceUsers, body \in EditReviewBodies : create_review(c, body)
    \/ \E c \in RaceUsers, r \in ReviewIds, body \in UpdateReviewBodies :
          update_review(c, r, body)
    \/ \E c \in RaceUsers, r \in ReviewIds : delete_review(c, r)

SpecEdit == Init /\ [][NextEdit]_vars

-----------------------------------------------------------------------------
(* Properties of the booking lifecycle, Spec and SpecCreate *)

\* the transition table of the specification, section 4.1
TransitionTable ==
    {<<"owner", "pending", "cancelled">>, <<"owner", "confirmed", "cancelled">>,
     <<"sitter", "pending", "confirmed">>, <<"sitter", "pending", "rejected">>,
     <<"sitter", "confirmed", "completed">>}

RolesOf(c, booking) ==
    {role \in {"owner", "sitter"} :
        \/ role = "owner" /\ booking.owner_id = c
        \/ role = "sitter" /\ booking.sitter_id = c}

TableAllows(c, booking, to) ==
    \E role \in RolesOf(c, booking) : <<role, booking.status, to>> \in TransitionTable

DetailFields == {"start_date", "end_date", "start_time", "end_time", "pet_ids"}

\* the update_booking requests that ask for the status recorded in last'
BodiesAsking(arg) ==
    {body \in UpdateBookingBodies : Get(body, "status", "unset") = arg}

\* C1 as claimed: an update_booking request with a status field succeeds,
\* and the stored status becomes the target, exactly when (actor, current
\* status, target) is a row of the transition table; every other request
\* with a status field is rejected and leaves the stored booking unchanged.
C1_StatusExactlyTable ==
    [][last'.op = "update_booking" =>
        \A c \in Users, b \in DOMAIN bookings, body \in BodiesAsking(last'.arg) :
            ("status" \in DOMAIN body /\ update_booking(c, b, body))
                => IF TableAllows(c, bookings[b], body.status)
                   THEN /\ last'.result = "ok"
                        /\ bookings'[b].status = body.status
                   ELSE /\ last'.result = "rejected"
                        /\ bookings' = bookings]_vars

\* C1 amended: a request whose triple is no row of the table is rejected
\* and leaves the stored booking unchanged, whatever else it carries; a
\* request whose triple is a row of the table and that carries no detail
\* field succeeds and the stored status becomes the target.
C1_StatusTableNoDetails ==
    [][last'.op = "update_booking" =>
        \A c \in Users, b \in DOMAIN bookings, body \in BodiesAsking(last'.arg) :
            ("status" \in DOMAIN body /\ update_booking(c, b, body))
                => IF TableAllows(c, bookings[b], body.status)
                   THEN (DOMAIN body) \cap DetailFields = {}
                           => /\ last'.result = "ok"
                              /\ bookings'[b].status = body.status
                   ELSE /\ last'.result = "rejected"
                        /\ bookings' = bookings]_vars

\* a sitter's confirmation of a pending booking has just succeeded
C1_Witness ==
    /\ last = Response("update_booking", "confirmed", "ok")
    /\ \E b \in DOMAIN bookings : bookings[b].status = "confirmed"

StatusEdges ==
    {<<"pending", "confirmed">>, <<"pending", "rejected">>, <<"pending", "cancelled">>,
     <<"confirmed", "completed">>, <<"confirmed", "cancelled">>}

\* C2: every change of a stored booking's status, by any operation, is an
\* edge of the transition graph; completed, cancelled and rejected bookings
\* never change status again.
C2_StatusFollowsGraph ==
    [][\A b \in (DOMAIN bookings) \cap (DOMAIN bookings') :
          bookings'[b].status # bookings[b].status
              => <<bookings[b].status, bookings'[b].status>> \in StatusEdges]_vars

\* C3: the booking stored by a successful create_booking has status pending.
C3_CreatedPending ==
    (last.op = "create_booking" /\ last.result = "ok")
        => bookings[counters.bookings].status = "pending"

\* C4: an update_booking request by a participant that carries a detail
\* field while the booking is not pending fails and leaves the stored
\* booking unchanged.
C4_DetailsOnlyWhilePending ==
    [][last'.op = "update_booking" =>
        \A c \in Users, b \in DOMAIN bookings, body \in BodiesAsking(last'.arg) :
            (/\ (DOMAIN body) \cap DetailFields # {}
             /\ RolesOf(c, bookings[b]) # {}
             /\ bookings[b].status # "pending"
             /\ update_booking(c, b, body))
                => last'.result = "rejected" /\ bookings' = bookings]_vars

Details(booking) == [k \in DetailFields |-> booking[k]]

\* C5: no update_booking request made by the booking's sitter changes the
\* booking's dates, times or pet list.
C5_SitterNeverChangesDetails ==
    [][last'.op = "update_booking" =>
        \A c \in Users, b \in DOMAIN bookings, body \in BodiesAsking(last'.arg) :
            (RolesOf(c, bookings[b]) = {"sitter"} /\ update_booking(c, b, body))
                => Details(bookings'[b]) = Details(bookings[b])]_vars

\* C6: delete_booking removes the booking when the caller is its owner and
\* its status is pending; in every other case it fails and every stored
\* booking is unchanged.
C6_DeleteOnlyOwnerPending ==
    [][last'.op = "delete_booking" =>
        \A c \in Users, b \in BookingIds :
            delete_booking(c, b)
                => IF /\ b \in DOMAIN bookings
                      /\ bookings[b].owner_id = c
                      /\ bookings[b].status = "pending"
                   THEN /\ last'.result = "ok"
                        /\ DOMAIN bookings' = (DOMAIN bookings) \ {b}
                        /\ \A x \in DOMAIN bookings' : bookings'[x] = bookings[x]
                   ELSE /\ last'.result = "rejected"
                        /\ bookings' = bookings]_vars

\* a pending booking has just been removed by its owner
C6_Witness ==
    /\ last.op = "delete_booking" /\ last.result = "ok"
    /\ counters.bookings > Cardinality(DOMAIN bookings)

-----------------------------------------------------------------------------
(* Properties of the review workflow, SpecReview *)

ReviewOps == {"create_review", "update_review", "delete_review"}

ReviewsOf(sitter_id) ==
    {r \in DOMAIN reviews : reviews[r].sitter_id = sitter_id}

ValueOf(opt) == IF opt = None THEN 0 ELSE opt[1]

RECURSIVE RatingSum(_)
RatingSum(rs) ==
    IF rs = {} THEN 0
    ELSE LET r == CHOOSE x \in rs : TRUE
         IN  ValueOf(reviews[r].rating) + RatingSum(rs \ {r})

\* t tenths is num/den tenths rounded to the nearest tenth (either
\* neighbour at a tie)
RoundsTo(t, num, den) ==
    /\ 2 * (t * den - num) <= den
    /\ 2 * (num - t * den) <= den

IsSitterProfile(s) == Found(profiles, s) /\ "rating_count" \in DOMAIN profiles[s]

AggregateMatches(s) ==
    LET n == Cardinality(ReviewsOf(s))
    IN  /\ profiles[s].rating_count = n
        /\ IF n = 0 THEN profiles[s].rating = None
           ELSE /\ profiles[s].rating # None
                /\ RoundsTo(profiles[s].rating[1], 10 * RatingSum(ReviewsOf(s)), n)

\* C7: after a review operation that completed successfully, every sitter
\* profile's rating_count is the number of stored reviews for that sitter
\* and its rating is their mean rounded to one decimal, or null when the
\* count is 0.
C7_AggregateMatchesReviews ==
    (last.op \in ReviewOps /\ last.result = "ok")
        => \A s \in Users : IsSitterProfile(s) => AggregateMatches(s)

\* C8: a create_review that stores a review for a sitter with aggregate
\* (rating, count) succeeds and sets count' = count + 1 and
\* rating' = round((rating_or_0 * count + new_rating) / count', 1); from
\* (null, 0) the aggregate becomes (new_rating, 1).
C8_AddTreatsNullAsZero ==
    [][last'.op = "create_review" =>
        \A c \in Users, body \in CreateReviewBodies :
            (/\ create_review(c, body)
             /\ reviews' # reviews
             /\ IsSitterProfile(body.sitter_id))
                => LET p == profiles[body.sitter_id]
                       q == profiles'[body.sitter_id]
                   IN  /\ last'.result = "ok"
                       /\ q.rating_count = p.rating_count + 1
                       /\ q.rating # None
                       /\ RoundsTo(q.rating[1],
                                   ValueOf(p.rating) * p.rating_count + 10 * body.rating,
                                   q.rating_count)]_vars

Aggregate(s) == <<profiles[s].rating, profiles[s].rating_count>>

\* C9: the end-to-end scenario of owner o1 and freshly registered sitter s1.
\* Each step, taken in the state the previous steps lead to, succeeds:
\* the booking is created pending, the sitter confirms and completes it,
\* the owner's review with rating 5 makes the aggregate (5.0, 1), the edit
\* to 3 makes it (3.0, 1) and the deletion makes it (null, 0).
C9_Scenario ==
    [][\A b \in BookingIds, r \in ReviewIds :
        /\ (/\ ~Found(bookings, b)
            /\ create_booking("o1", [owner_id |-> "o1", sitter_id |-> "s1",
                    pet_ids |-> {}, start_date |-> 1, end_date |-> 1,
                    start_time |-> None, end_time |-> None,
                    status |-> "pending", total_price |-> None])
            /\ IsSitterProfile("s1") /\ b = FreshId("bookings"))
               => (last'.result = "ok" /\ bookings'[b].status = "pending")
        /\ (/\ Found(bookings, b) /\ bookings[b].owner_id = "o1"
            /\ bookings[b].sitter_id = "s1" /\ bookings[b].status = "pending"
            /\ update_booking("s1", b, [status |-> "confirmed"]))
               => (last'.result = "ok" /\ bookings'[b].status = "confirmed")
        /\ (/\ Found(bookings, b) /\ bookings[b].owner_id = "o1"
            /\ bookings[b].sitter_id = "s1" /\ bookings[b].status = "confirmed"
            /\ update_booking("s1", b, [status |-> "completed"]))
               => (last'.result = "ok" /\ bookings'[b].status = "completed")
        /\ (/\ Found(bookings, b) /\ bookings[b].owner_id = "o1"
            /\ bookings[b].sitter_id = "s1" /\ bookings[b].status = "completed"
            /\ ~ReviewForBooking(b)
            /\ IsSitterProfile("s1") /\ Aggregate("s1") = <<None, 0>>
            /\ create_review("o1", [booking_id |-> b, owner_id |-> "o1",
                                    sitter_id |-> "s1", rating |-> 5]))
               => (last'.result = "ok" /\ Aggregate("s1")' = <<Some(50), 1>>)
        /\ (/\ Found(reviews, r) /\ reviews[r].owner_id = "o1"
            /\ reviews[r].sitter_id = "s1" /\ reviews[r].rating = Some(5)
            /\ IsSitterProfile("s1") /\ Aggregate("s1") = <<Some(50), 1>>
            /\ update_review("o1", r, [rating |-> Some(3)]))
               => (last'.result = "ok" /\ Aggregate("s1")' = <<Some(30), 1>>)
        /\ (/\ Found(reviews, r) /\ reviews[r].owner_id = "o1"
            /\ reviews[r].sitter_id = "s1" /\ reviews[r].rating = Some(3)
            /\ IsSitterProfile("s1") /\ Aggregate("s1") = <<Some(30), 1>>
            /\ delete_review("o1", r))
               => (last'.result = "ok" /\ Aggregate("s1")' = <<None, 0>>)]_vars

\* C10: when delete_review removes the only review stored for a sitter,
\* the sitter's aggregate afterwards is (null, 0).
C10_SoleReviewDeleteResets ==
    [][last'.op = "delete_review" =>
        \A c \in Users, r \in DOMAIN reviews, s \in Users :
            (/\ delete_review(c, r)
             /\ r \notin DOMAIN reviews'
             /\ s = reviews[r].sitter_id
             /\ ReviewsOf(s) = {r}
             /\ IsSitterProfile(s))
                => Aggregate(s)' = <<None, 0>>]_vars

\* the only review of sitter s1 has just been deleted
C10_Witness ==
    /\ last.op = "delete_review" /\ last.result = "ok"
    /\ counters.reviews > 0 /\ ReviewsOf("s1") = {}
    /\ IsSitterProfile("s1")

\* C11: once every addition of the list has been carried out, the aggregate
\* of s1 is the number of additions and their mean rounded to one decimal,
\* whatever the order in which they were carried out; for the ratings
\* 5, 3, 4 it is (4.0, 3).
C11_OrderIndependent ==
    inflight = <<>>
        => /\ Cardinality(ReviewsOf("s1")) = MaxAdds
           /\ AggregateMatches("s1")
           /\ ({reviews[r].rating : r \in DOMAIN reviews} = {Some(5), Some(3), Some(4)}
                   => Aggregate("s1") = <<Some(40), 3>>)

\* t tenths is within one tenth of num/den tenths
WithinTenth(t, num, den) ==
    /\ t * den - num <= den
    /\ num - t * den <= den

\* C12: after every review operation, for every sitter profile the
\* maintained rating_count is the number of stored reviews of the sitter
\* and, when there are any, the maintained rating is within 0.1 of their
\* mean.
C12_IncrementalMatchesRecomputed ==
    last.op \in ReviewOps
        => \A s \in Users :
              IsSitterProfile(s)
                  => LET n == Cardinality(ReviewsOf(s))
                     IN  /\ profiles[s].rating_count = n
                         /\ n > 0 => /\ profiles[s].rating # None
                                      /\ WithinTenth(profiles[s].rating[1],
                                             10 * RatingSum(ReviewsOf(s)), n)

\* the preconditions of create_review on the booking
BookingReviewable(c, body) ==
    /\ body.booking_id \in DOMAIN bookings
    /\ bookings[body.booking_id].owner_id = c
    /\ bookings[body.booking_id].status = "completed"
    /\ body.sitter_id = bookings[body.booking_id].sitter_id

\* C13: a create_review request whose booking is missing, is not the
\* caller's, is not completed or has another sitter than the request is
\* rejected and writes neither a review nor a sitter profile; a request
\* that writes anything satisfies all four conditions.
C13_ReviewOnlyForCompletedBooking ==
    [][(/\ last'.op = "create_review"
        /\ ~(/\ last'.result = "rejected"
             /\ reviews' = reviews
             /\ profiles' = profiles))
          => \A body \in CreateReviewBodies :
                create_review(last'.arg, body) => BookingReviewable(last'.arg, body)]_vars

\* o1's review of a booking that is only confirmed has just been rejected
C13_Witness ==
    /\ last = Response("create_review", "o1", "rejected")
    /\ reviews = <<>>
    /\ \E b \in DOMAIN bookings :
          bookings[b].owner_id = "o1" /\ bookings[b].status = "confirmed"

\* C15: an update_review or delete_review request that changes a review
\* or a sitter profile comes from the owner of an existing review; a
\* request from any other caller, or for a missing review, is rejected and
\* leaves reviews and sitter profiles unchanged.
C15_ReviewMutationsOwnerOnly ==
    [][(/\ last'.op \in {"update_review", "delete_review"}
        /\ ~(/\ last'.result = "rejected"
             /\ reviews' = reviews
             /\ profiles' = profiles))
          => \A r \in ReviewIds :
                /\ \A body \in UpdateReviewBodies :
                      update_review(last'.arg, r, body)
                          => (r \in DOMAIN reviews /\ reviews[r].owner_id = last'.arg)
                /\ delete_review(last'.arg, r)
                      => (r \in DOMAIN reviews /\ reviews[r].owner_id = last'.arg)]_vars

\* the sitter's attempt to delete the owner's review has just been rejected
C15_Witness ==
    /\ last = Response("delete_review", "s1", "rejected")
    /\ \E r \in DOMAIN reviews : reviews[r].owner_id = "o1"

\* C18: a review operation that fails after its first write leaves no
\* partial state: the reviews and the sitter profiles are both as before
\* the operation, or both have been written.
C18_NoPartialState ==
    [][(last'.op \in ReviewOps /\ last'.result = "error")
          => \/ (reviews' = reviews /\ profiles' = profiles)
             \/ (reviews' # reviews /\ profiles' # profiles)]_vars

FrameOps ==
    {"create_booking", "update_booking", "delete_booking",
     "create_review", "update_review", "delete_review"}

\* C19: a booking or review request that is rejected by a validation
\* check leaves every stored booking, review and profile unchanged.
C19_RejectedChangesNothing ==
    [][(last'.op \in FrameOps /\ last'.result = "rejected")
          => /\ bookings' = bookings
             /\ reviews' = reviews
             /\ profiles' = profiles]_vars

\* the owner's attempt to complete a pending booking has just been rejected
C19_Witness ==
    /\ last = Response("update_booking", "completed", "rejected")
    /\ \E b \in DOMAIN bookings : bookings[b].status = "pending"

\* C20: after any sequence of successful create_booking and update_booking
\* operations every stored booking has end_date >= start_date.
C20_EndNotBeforeStart ==
    \A b \in DOMAIN bookings : bookings[b].end_date >= bookings[b].start_date

\* C14: at most one review is stored per booking_id, also when create_review
\* requests for the same booking are interleaved.
C14_OneReviewPerBooking ==
    \A r1, r2 \in DOMAIN reviews :
        reviews[r1].booking_id = reviews[r2].booking_id => r1 = r2

\* two requests of the given operation ran side by side and both answered 2xx
Concurrent(i, j) == i \in inflight[j].with \/ j \in inflight[i].with

BothSucceeded(i, j, ops) ==
    /\ i # j
    /\ inflight[i].op \in ops /\ inflight[j].op \in ops
    /\ inflight[i].result = "ok" /\ inflight[j].result = "ok"
    /\ Concurrent(i, j)

\* C17: two concurrent status transitions of one booking that read the same
\* source status do not both succeed.
C17_NoDoubleTransition ==
    \A i, j \in DOMAIN inflight :
        (/\ BothSucceeded(i, j, {"update_booking"})
         /\ inflight[i].booking_id = inflight[j].booking_id
         /\ "status" \in DOMAIN inflight[i].body
         /\ "status" \in DOMAIN inflight[j].body)
            => inflight[i].booking.status # inflight[j].booking.status

\* the sitter whose aggregate a review request maintains
SitterOf(k) ==
    IF inflight[k].op = "create_review"
    THEN inflight[k].body.sitter_id
    ELSE inflight[k].review[1].sitter_id

\* the aggregate update of request k, as its handler computes it when the
\* profile it reads is `sitter`
UpdateOf(k, sitter, tie_up) ==
    LET rq == inflight[k]
    IN  IF rq.op = "create_review"
        THEN AddAggregate(sitter, rq.body.rating, tie_up)
        ELSE IF rq.op = "delete_review"
        THEN RemoveAggregate(sitter, rq.review[1].rating, tie_up)
        ELSE IF "rating" \in DOMAIN rq.body /\ rq.review[1].rating # rq.body.rating
        THEN EditAggregate(sitter, rq.review[1].rating, rq.body.rating, tie_up)
        ELSE NoWrite

\* the profiles that the update of i followed by the update of j can leave,
\* starting from the profile `sitter`
OneAfterTheOther(i, j, sitter) ==
    {SetFields(SetFields(sitter, UpdateOf(i, sitter, t1).set),
               UpdateOf(j, SetFields(sitter, UpdateOf(i, sitter, t1).set), t2).set) :
        t1 \in BOOLEAN, t2 \in BOOLEAN}

C21_StoredPetsBelongToOwner ==
    [][(last'.op \in {"create_booking", "update_booking"} /\ last'.result = "ok")
          => \A b \in DOMAIN bookings' :
                (b \notin DOMAIN bookings \/ bookings'[b].pet_ids # bookings[b].pet_ids)
                    => PetsBelongTo(bookings'[b].pet_ids, bookings'[b].owner_id)]_vars

\* C30: every pet id listed in a pending or confirmed booking is a stored pet.
C30_ActiveBookingPetsExist ==
    \A b \in DOMAIN bookings :
        bookings[b].status \in {"confirmed", "pending"}
            => \A p \in bookings[b].pet_ids : Found(pets, p)

\* the price the specification prescribes, as a fraction of a cent: hours
\* times rate when both times are given, else days times 8 times rate
PrescribedPrice(rate, booking) ==
    IF booking.start_time # None /\ booking.end_time # None
    THEN [num |-> ((booking.end_date * 48 + booking.end_time[1])
                     - (booking.start_date * 48 + booking.start_time[1])) * rate,
          den |-> 20]
    ELSE [num |-> (booking.end_date - booking.start_date + 1) * 8 * rate,
          den |-> 10]

\* the bookings a step has inserted
Created == (DOMAIN bookings') \ (DOMAIN bookings)

\* C22: when the sitter has a configured (non-zero) hourly rate r,
\* create_booking stores total_price = round(hours * r, 2) when both times
\* are given and round(days * 8 * r, 2) otherwise.
C22_PriceFromRate ==
    [][(last'.op = "create_booking" /\ last'.result = "ok")
          => \A b \in Created :
                LET rate == profiles[bookings'[b].sitter_id].hourly_rate
                    price == PrescribedPrice(rate[1], bookings'[b])
                IN  (rate # None /\ rate[1] # 0)
                       => bookings'[b].total_price
                             \in {Some(Round2(price.num, price.den, t)) : t \in BOOLEAN}
      ]_vars

\* C23: when the sitter has no configured hourly rate, the stored booking has
\* no total_price, whatever the request body carries.
C23_NoRateNoPrice ==
    [][(last'.op = "create_booking" /\ last'.result = "ok")
          => \A b \in Created :
                profiles[bookings'[b].sitter_id].hourly_rate = None
                    => bookings'[b].total_price = None]_vars

AggregateKeys == {"rating", "rating_count"}

\* the operations that are not review operations
ProfileAndBookingOps ==
    {"update_profile_me", "update_sitter_profile_me",
     "create_booking", "update_booking", "delete_booking"}

\* C24: the profile updates and the booking operations leave rating and
\* rating_count of every profile as they were.
C24_AggregateWrittenOnlyByReviews ==
    [][last'.op \in ProfileAndBookingOps
          => \A u \in DOMAIN profiles :
                /\ u \in DOMAIN profiles'
                /\ \A k \in AggregateKeys :
                      /\ (k \in DOMAIN profiles'[u]) = (k \in DOMAIN profiles[u])
                      /\ k \in DOMAIN profiles[u] => profiles'[u][k] = profiles[u][k]
      ]_vars

\* the sitter has updated the profile (the rate is set) and an owner too
C24_Witness ==
    /\ last.op = "update_profile_me" /\ last.result = "ok"
    /\ Found(profiles, "s1") /\ profiles["s1"].hourly_rate = Some(10000)
    /\ Aggregate("s1") = <<None, 0>>
    /\ Found(profiles, "o1") /\ "phone" \in DOMAIN profiles["o1"]

\* C27: every stored review's rating is an integer in 1..5; an update_review
\* whose body sets rating to null does not store a null rating.
C27_StoredRatingInRange ==
    \A r \in DOMAIN reviews : reviews[r].rating \in {Some(v) : v \in 1..5}

\* request k is an update_review with a changed rating that has written the
\* review and has not yet passed its update of the sitter's aggregate
AggregatePending(k) ==
    /\ inflight[k].op = "update_review"
    /\ "rating" \in DOMAIN inflight[k].body
    /\ inflight[k].review[1].rating # inflight[k].body.rating
    /\ inflight[k].pc \in {"find_sitter", "update_sitter"}

\* C26: in update_review with a changed rating the aggregate is updated before
\* the new rating is persisted: the stored review never carries the new rating
\* while the request has not yet updated the sitter's aggregate.
C26_AggregateBeforeReview ==
    \A k \in DOMAIN inflight :
        AggregatePending(k)
            => ~(/\ Found(reviews, inflight[k].review_id)
                 /\ reviews[inflight[k].review_id].rating = inflight[k].body.rating)

\* C29: with the owner's delete_booking and the sitter's update_booking side
\* by side, the store never removes a booking whose stored status at the
\* moment of removal is not pending.
C29_OnlyPendingRemoved ==
    [][\A b \in (DOMAIN bookings) \ (DOMAIN bookings') :
          bookings[b].status = "pending"]_vars

\* the request changes the rating of a stored review of its caller
RatingEdited(caller, review_id, update_data) ==
    /\ UpdateReviewAccepted(caller, review_id, update_data)
    /\ "rating" \in DOMAIN update_data
    /\ update_data.rating # reviews[review_id].rating

\* the rating apply_edit prescribes for sitter s, either way at a tie
EditedRatings(s, old_rating, new_rating) ==
    {Some(Round1(profiles[s].rating[1] * profiles[s].rating_count
                   - 10 * old_rating[1] + 10 * new_rating[1],
                 profiles[s].rating_count, tie_up)) : tie_up \in BOOLEAN}

\* C25: an update_review request never changes the rating_count of any
\* sitter; when it carries no rating, or the rating the review already has,
\* or is rejected, no profile changes at all; when it changes the rating of
\* a review, only the profile of that review's sitter may change, and if
\* that sitter's rating_count is positive the rating becomes
\* round((rating * count - old + new) / count, 1).
C25_EditKeepsCount ==
    [][last'.op = "update_review"
          => \A r \in ReviewIds, body \in UpdateReviewBodies :
                update_review(last'.arg, r, body)
                  => /\ DOMAIN profiles' = DOMAIN profiles
                     /\ \A u \in DOMAIN profiles :
                           "rating_count" \in DOMAIN profiles[u]
                             => /\ "rating_count" \in DOMAIN profiles'[u]
                                /\ profiles'[u].rating_count
                                     = profiles[u].rating_count
                     /\ IF ~RatingEdited(last'.arg, r, body)
                        THEN profiles' = profiles
                        ELSE LET s == reviews[r].sitter_id
                             IN  /\ \A u \in DOMAIN profiles \ {s} :
                                       profiles'[u] = profiles[u]
                                 /\ (/\ IsSitterProfile(s)
                                     /\ profiles[s].rating_count > 0
                                     /\ profiles[s].rating # None
                                     /\ reviews[r].rating # None
                                     /\ body.rating # None)
                                       => profiles'[s].rating
                                            \in EditedRatings(s, reviews[r].rating,
                                                              body.rating)]_vars

\* o1 has just changed the rating of a review of sitter s1 to 5, and s1's
\* profile is stored
C25_Witness ==
    /\ last = Response("update_review", "o1", "ok")
    /\ IsSitterProfile("s1")
    /\ \E r \in DOMAIN reviews :
          /\ reviews[r].owner_id = "o1" /\ reviews[r].sitter_id = "s1"
          /\ reviews[r].rating = Some(5)

\* C28: with review operations applied one at a time, the rating_count of
\* every sitter profile is never negative, and whenever it is positive the
\* rating is a number between 1.0 and 5.0.
C28_AggregateInRange ==
    \A s \in DOMAIN profiles :
        IsSitterProfile(s)
          => /\ profiles[s].rating_count >= 0
             /\ profiles[s].rating_count > 0
                  => /\ profiles[s].rating # None
                     /\ profiles[s].rating[1] \in 10..50

\* two reviews of sitter s1 have been added, one after the other, and the
\* second has just been deleted
C28_Witness ==
    /\ last = Response("delete_review", "o1", "ok")
    /\ counters.reviews = 2
    /\ IsSitterProfile("s1")
    /\ reviews = <<>>

====
